---- MODULE Spec2Model ----
(***************************************************************************)
(* Voice-profile lifecycle and request dispatch of voiceclone:             *)
(*   - the voice store (VoiceService over the "voices" table and the       *)
(*     per-voice storage directory),                                       *)
(*   - the synthesis client (TTSClient.synthesize / stream_synthesis),     *)
(*   - the HTTP synthesis handlers (POST /tts/synthesize[/audio]),         *)
(*   - the two WebSocket handlers (/api/v1/tts/stream[/binary]),           *)
(*   - direct calls of the synthesis client, the listing GET /voices and   *)
(*     the validation of uploaded audio (utils/audio.py),                  *)
(*   - audio carried as base64 text (audio_to_base64, base64_to_audio),    *)
(*   - updates of a stored profile by requests with sessions of their own  *)
(*     (update_voice, update_processing_status, get_db),                   *)
(*   - the registry of WebSocket connections (ConnectionManager).          *)
(*                                                                         *)
(* Handlers are cut at the awaits where another request can change the     *)
(* store between two of their steps: after the voice lookup and before the *)
(* call of the synthesis client.                                           *)
(***************************************************************************)
EXTENDS Integers, Sequences, FiniteSets, TLC

\* Number of voice profiles that can be created (uuid4 identifiers 1..MaxVoices).
MaxVoices == 1

\* Identifiers VoiceService.create_voice hands out; 0 is an identifier that
\* was never assigned (a request may name any uuid).
VoiceIds == 1..MaxVoices
UnknownId == 0
RequestIds == {UnknownId} \cup VoiceIds

\* No row in the "voices" table for an identifier.
NoVoice == [no_row |-> TRUE]

\* models/voice.py: the documented values of processing_status.
Statuses == {"pending", "processing", "ready", "failed"}
\* update_processing_status takes any str; "archived" stands for a value
\* outside the documented four.
StatusArgs == Statuses \cup {"archived"}

\* ---------------------------------------------------------------------------
\* Synthesis client (services/tts_client.py)
\* ---------------------------------------------------------------------------

XTTS_SUPPORTED_LANGUAGES ==
    {"en", "es", "fr", "de", "it", "pt", "pl", "tr", "ru", "nl", "cs", "ar",
     "zh-cn", "ja", "hu", "ko", "hi"}

SVARA_SUPPORTED_LANGUAGES ==
    {"hi", "bn", "mr", "te", "kn", "ta", "gu", "ml", "pa", "as", "or", "bo",
     "doi", "bho", "mai", "mag", "cg", "ne", "sa", "en-in"}

SVARA_EMOTIONS == {"happy", "sad", "anger", "fear", "neutral"}

SUPPORTED_LANGUAGES == XTTS_SUPPORTED_LANGUAGES \cup SVARA_SUPPORTED_LANGUAGES

Models == {"svara", "xtts", "chatterbox", "orpheus"}

\* emotion: Optional[str]; None and "" are both falsy in the client's tests.
NoEmotion == "None"
Truthy(emotion) == emotion # NoEmotion /\ emotion # ""

\* audio_path: Optional[Path]; a voice's processed.wav is named by its id.
NoPath == -1

\* What the remote inference endpoint can answer to one POST.
\*   audio       200, body {audio_base64, sample_rate, duration_seconds, ...}
\*   error_field 200, body {error: ...}
\*   http_error  transport error or non-2xx status (httpx.HTTPError)
\*   not_json    200, body is not JSON (response.json() raises ValueError)
\*   no_audio    200, JSON body with neither "error" nor "audio_base64"
RemoteResponses == {"audio", "error_field", "http_error", "not_json", "no_audio"}

\* Outcome of a client call: how it ended, how many POSTs it sent, whether the
\* payload carried audio_prompt_base64, and the body it returned.
Raised(exc) == [outcome |-> exc, posts |-> 0, prompt |-> FALSE, body |-> "-"]

\* Post with a second POST after a failed exchange.
Post_Retry(prompt, resp) ==
    CASE resp = "http_error"  -> [outcome |-> "TTSClientError", posts |-> 2, prompt |-> prompt, body |-> "-"]
      [] resp = "error_field" -> [outcome |-> "TTSClientError", posts |-> 1, prompt |-> prompt, body |-> "-"]
      [] resp = "not_json"    -> [outcome |-> "Exception", posts |-> 1, prompt |-> prompt, body |-> "-"]
      [] OTHER                -> [outcome |-> "ok", posts |-> 1, prompt |-> prompt, body |-> resp]

\* The tail shared by the four synthesize_* methods: one POST, raise_for_status,
\* response.json(), the "error" test, return result.
Post(prompt, resp) ==
    CASE resp = "http_error"  -> [outcome |-> "TTSClientError", posts |-> 1, prompt |-> prompt, body |-> "-"]
      [] resp = "error_field" -> [outcome |-> "TTSClientError", posts |-> 1, prompt |-> prompt, body |-> "-"]
      [] resp = "not_json"    -> [outcome |-> "Exception", posts |-> 1, prompt |-> prompt, body |-> "-"]
      [] OTHER                -> [outcome |-> "ok", posts |-> 1, prompt |-> prompt, body |-> resp]

\* A test of the path that every path passes.
PathExists_Always(audio_path, files) == TRUE

\* Path(audio_path).exists(), given the set of voice directories on disk.
PathExists(audio_path, files) == audio_path \in files

synthesize_xtts(audio_path, language, files, resp) ==
    IF language \notin SUPPORTED_LANGUAGES THEN Raised("TTSClientError")
    ELSE IF ~PathExists(audio_path, files) THEN Raised("TTSClientError")
    ELSE Post(TRUE, resp)

\* synthesize_chatterbox without its test of the reference file.
synthesize_chatterbox_NoFileTest(audio_path, files, resp) == Post(TRUE, resp)

synthesize_chatterbox(audio_path, files, resp) ==
    IF ~PathExists(audio_path, files) THEN Raised("TTSClientError")
    ELSE Post(TRUE, resp)

synthesize_orpheus(emotion, resp) == Post(FALSE, resp)

\* synthesize_svara without its validation of the emotion.
synthesize_svara_AnyEmotion(language, emotion, audio_path, files, resp) ==
    IF language \notin SVARA_SUPPORTED_LANGUAGES THEN Raised("TTSClientError")
    ELSE Post(audio_path # NoPath /\ PathExists(audio_path, files), resp)

synthesize_svara(language, emotion, audio_path, files, resp) ==
    IF language \notin SVARA_SUPPORTED_LANGUAGES THEN Raised("TTSClientError")
    ELSE IF Truthy(emotion) /\ emotion \notin SVARA_EMOTIONS THEN Raised("TTSClientError")
    ELSE Post(audio_path # NoPath /\ PathExists(audio_path, files), resp)

\* TTSClient.synthesize: dispatch on the model name.
synthesize(model, audio_path, language, emotion, files, resp) ==
    CASE model = "svara"      -> synthesize_svara(language, emotion, audio_path, files, resp)
      [] model = "xtts"       -> IF audio_path = NoPath THEN Raised("TTSClientError")
                                 ELSE synthesize_xtts(audio_path, language, files, resp)
      [] model = "chatterbox" -> IF audio_path = NoPath THEN Raised("TTSClientError")
                                 ELSE synthesize_chatterbox(audio_path, files, resp)
      [] model = "orpheus"    -> synthesize_orpheus(emotion, resp)
      [] OTHER                -> Raised("TTSClientError")

\* stream_synthesis's default for the language its callers do not pass.
StreamDefaultLanguage == "en"

\* The items of the async generator: the audio item carries audio_base64 of
\* the response, the final item total_chunks.
AudioItem == [is_final |-> FALSE, chunk_index |-> 0, audio_base64 |-> "-"]
FinalItem == [is_final |-> TRUE, total_chunks |-> 1]

\* stream_synthesis that cuts the audio of the response into two items.
stream_synthesis_Chunked(model, audio_path, emotion, files, resp) ==
    LET r == synthesize(model, audio_path, StreamDefaultLanguage, emotion, files, resp)
    IN  IF r.outcome # "ok" THEN [r EXCEPT !.body = "-"] @@ [items |-> <<>>]
        ELSE IF r.body = "no_audio"
             THEN [outcome |-> "Exception", posts |-> r.posts, prompt |-> r.prompt,
                   body |-> "-", items |-> <<>>]
        ELSE [outcome |-> "ok", posts |-> r.posts, prompt |-> r.prompt,
              body |-> r.body,
              items |-> <<[AudioItem EXCEPT !.audio_base64 = r.body],
                          [AudioItem EXCEPT !.audio_base64 = r.body, !.chunk_index = 1],
                          FinalItem>>]

\* TTSClient.stream_synthesis: one synthesize call, then the whole audio as one
\* non-final item and a final item.  result["audio_base64"] raises KeyError
\* when the body has no such key.
stream_synthesis(model, audio_path, emotion, files, resp) ==
    LET r == synthesize(model, audio_path, StreamDefaultLanguage, emotion, files, resp)
    IN  IF r.outcome # "ok" THEN [r EXCEPT !.body = "-"] @@ [items |-> <<>>]
        ELSE IF r.body = "no_audio"
             THEN [outcome |-> "Exception", posts |-> r.posts, prompt |-> r.prompt,
                   body |-> "-", items |-> <<>>]
        ELSE [outcome |-> "ok", posts |-> r.posts, prompt |-> r.prompt,
              body |-> r.body,
              items |-> <<[AudioItem EXCEPT !.audio_base64 = r.body], FinalItem>>]

\* ---------------------------------------------------------------------------
\* State
\*
\* The synthesis requests followed are those of one client, which sends its
\* next request, over HTTP or over its WebSocket connection, once the previous
\* one was answered; ws and http keep the record of that client's last request
\* (frames sent, POSTs made, status seen) until it sends the next.  Voice-store
\* operations of other clients interleave with every step of a request.
\* ---------------------------------------------------------------------------

VARIABLES
    db,       \* committed rows of the "voices" table: id -> Voice or NoVoice
    dirs,     \* ids whose storage directory (holding processed.wav) exists
    next_id,  \* how many identifiers uuid4 has produced for create_voice
    deleted,  \* ids whose DELETE /voices/{id} was answered 204
    last,     \* the last answer of a voice-store operation
    ws,       \* the WebSocket connection: its endpoint and its handler's state
    http,     \* the POST /tts/synthesize[/audio] request in flight
    call,     \* the last direct call of TTSClient.synthesize and its outcome
    listing,  \* the last GET /voices request and its answer
    upload,   \* the last file given to validate_audio_file and the outcome
    codec,    \* the last audio given to audio_to_base64 and what was read back
    profile,  \* every column of the stored profile that the update operations read or write
    sessions, \* the database sessions of the requests that update the stored profile
    manager,  \* the ConnectionManager: client_id -> the connection registered under it
    handlers  \* the endpoint handler of every WebSocket connection the server was offered

vars == <<db, dirs, next_id, deleted, last, ws, http, call, listing, upload, codec, profile, sessions, manager, handlers>>

\* The attributes of a Voice row that the operations below read or write.
Voice(status, active) == [processing_status |-> status, is_active |-> active]

\* VoiceService.get_voice: the row, or NoVoice for VoiceNotFoundError.
get_voice(voice_id) == IF voice_id \in VoiceIds THEN db[voice_id] ELSE NoVoice

\* VoiceService.get_voice_audio_path: "VoiceNotFoundError", "VoiceServiceError"
\* (row present, file missing) or "ok" (the path is named by the id).
get_voice_audio_path(voice_id) ==
    IF get_voice(voice_id) = NoVoice THEN "VoiceNotFoundError"
    ELSE IF voice_id \notin dirs THEN "VoiceServiceError"
    ELSE "ok"

\* VoiceUpdate.model_dump(exclude_unset=True): the fields the request set.
UpdatableFields == {"is_active"}
Updates == UNION {[F -> BOOLEAN] : F \in SUBSET UpdatableFields}

\* The setattr loop of update_voice.
ApplyUpdate(voice, update) ==
    [f \in DOMAIN voice |-> IF f \in DOMAIN update THEN update[f] ELSE voice[f]]

\* The assignments of update_processing_status.
SetStatus(voice, status) == [voice EXCEPT !.processing_status = status]

Answer(op, result) == [op |-> op, result |-> result]

\* A connection handler that is not running.
NoRequest == [voice_id |-> UnknownId, model |-> "-", emotion |-> NoEmotion, language |-> "-"]

WsClosed(exit) ==
    [pc |-> "closed", endpoint |-> "-", req |-> NoRequest, audio_path |-> NoPath, items |-> <<>>,
     total_chunks |-> 0, frames |-> <<>>, posts |-> 0, lookups |-> 0,
     seen |-> "-", msg |-> "-", remote |-> "-", exit |-> exit]

HttpIdle == [pc |-> "idle", route |-> "-", req |-> NoRequest, audio_path |-> NoPath,
             status |-> "-", posts |-> 0, seen |-> "-", remote |-> "-", outcome |-> "-"]

Endpoints == {"json", "binary"}

\* No direct call of the client, no listing and no upload yet.
NoCall ==
    [model |-> "-", audio_path |-> NoPath, language |-> "-", emotion |-> NoEmotion,
     resp |-> "-", exists |-> FALSE, result |-> Raised("-")]
NoListing ==
    [asked |-> FALSE, rows |-> <<>>, page_arg |-> 1, page_size_arg |-> 1, active_only |-> TRUE,
     items |-> <<>>, total |-> 0, page |-> 1, page_size |-> 1, total_pages |-> 1]
NoUpload ==
    [given |-> FALSE, via |-> "-", file |-> [size |-> 0, filename |-> "-", readable |-> FALSE, duration |-> 0],
     outcome |-> "-", raised |-> "-", message |-> [check |-> "-", shown |-> -1, prefix |-> "-"],
     normalize_called |-> FALSE]

\* No audio encoded yet.
NoCodec ==
    [given |-> FALSE, audio_data |-> <<>>, sample_rate |-> 0, encoded |-> <<>>,
     decoded |-> FALSE, recovered_audio |-> <<>>, recovered_sr |-> 0]

\* None of Python and null of JSON.
None == "None"

\* The requests whose sessions are followed, and a request that has not begun.
SessionIds == {1, 2}
NoSession ==
    [pc |-> "idle", kind |-> "-", voice_id |-> UnknownId, update |-> <<>>,
     status |-> "-", error |-> None, chatterbox_data |-> None, orpheus_data |-> None,
     loaded |-> NoVoice, result |-> "-", order |-> 0]

\* WebSocket connections offered to the server.
MaxConnections == 2

\* The connections, the identifiers uuid4 can give them (one each), and the
\* absence of either.
Connections == 1..MaxConnections
ClientIds == 1..MaxConnections
NoConnection == 0
NoClientId == 0

\* The handler of a connection that has not been offered yet.
NoHandler == [pc |-> "none", endpoint |-> "-", client_id |-> NoClientId, exit |-> "-"]

Init ==
    /\ db = [v \in VoiceIds |-> NoVoice]
    /\ dirs = {}
    /\ next_id = 0
    /\ deleted = {}
    /\ last = Answer("-", "-")
    /\ ws = WsClosed("-")
    /\ http = HttpIdle
    /\ call = NoCall
    /\ listing = NoListing
    /\ upload = NoUpload
    /\ codec = NoCodec
    /\ profile = NoVoice
    /\ sessions = [s \in SessionIds |-> NoSession]
    /\ manager = [active_connections |-> [id \in ClientIds |-> NoConnection]]
    /\ handlers = [c \in Connections |-> NoHandler]

\* ---------------------------------------------------------------------------
\* Voice store (services/voice_service.py behind api/v1/voices.py and get_db)
\*
\* An HTTP handler's session is committed by get_db after the handler returns;
\* a commit that fails rolls the rows back (the files are not restored) and the
\* request is answered 500.
\* ---------------------------------------------------------------------------

\* create_voice with the voice's directory made before the file is validated.
create_voice_DirFirst(valid, normalized, committed) ==
    /\ next_id < MaxVoices
    /\ next_id' = next_id + 1
    /\ IF ~valid
       THEN /\ dirs' = dirs \cup {next_id + 1}
            /\ db' = db
            /\ last' = Answer("create", "400")
       ELSE IF ~normalized
       THEN /\ last' = Answer("create", "400")
            /\ UNCHANGED <<db, dirs>>
       ELSE /\ dirs' = dirs \cup {next_id + 1}
            /\ IF committed
               THEN /\ db' = [db EXCEPT ![next_id + 1] = Voice("pending", TRUE)]
                    /\ last' = Answer("create", "201")
               ELSE /\ db' = db
                    /\ last' = Answer("create", "500")

\* VoiceService.create_voice and the commit of get_db, given whether
\* validate_audio_file accepted the file, whether normalize_audio succeeded
\* and whether the commit did.
create_voice(valid, normalized, committed) ==
    /\ next_id < MaxVoices
    /\ LET id == next_id + 1
       IN  IF ~valid
           THEN \* validate_audio_file raised: VoiceServiceError -> 400
                /\ last' = Answer("create", "400")
                /\ UNCHANGED <<db, dirs, next_id>>
           ELSE IF ~normalized
           THEN \* voice_dir made, normalize_audio raised, rmtree(voice_dir)
                /\ next_id' = id
                /\ last' = Answer("create", "400")
                /\ UNCHANGED <<db, dirs>>
           ELSE /\ next_id' = id
                /\ dirs' = dirs \cup {id}
                /\ IF committed
                   THEN /\ db' = [db EXCEPT ![id] = Voice("pending", TRUE)]
                        /\ last' = Answer("create", "201")
                   ELSE /\ db' = db
                        /\ last' = Answer("create", "500")

\* POST /voices/clone -> create_voice.
CreateVoice(valid, normalized, committed) ==
    /\ create_voice(valid, normalized, committed)
    /\ UNCHANGED <<deleted, ws, http, call, listing, upload, codec, profile, sessions, manager, handlers>>

\* GET /voices/{id} -> get_voice.
GetVoice(voice_id) ==
    /\ last' = Answer("get", IF get_voice(voice_id) = NoVoice THEN "404" ELSE "200")
    /\ UNCHANGED <<db, dirs, next_id, deleted, ws, http, call, listing, upload, codec, profile, sessions, manager, handlers>>

\* PATCH /voices/{id} -> update_voice.
UpdateVoice(voice_id, update, committed) ==
    /\ IF get_voice(voice_id) = NoVoice
       THEN /\ last' = Answer("update", "404")
            /\ db' = db
       ELSE IF committed
       THEN /\ db' = [db EXCEPT ![voice_id] = ApplyUpdate(@, update)]
            /\ last' = Answer("update", "200")
       ELSE /\ db' = db
            /\ last' = Answer("update", "500")
    /\ UNCHANGED <<dirs, next_id, deleted, ws, http, call, listing, upload, codec, profile, sessions, manager, handlers>>

\* update_processing_status, called by the processing step with its own
\* session; any str is accepted as the new status.
UpdateProcessingStatus(voice_id, status) ==
    /\ IF get_voice(voice_id) = NoVoice
       THEN /\ last' = Answer("status", "VoiceNotFoundError")
            /\ db' = db
       ELSE /\ db' = [db EXCEPT ![voice_id] = SetStatus(@, status)]
            /\ last' = Answer("status", "ok")
    /\ UNCHANGED <<dirs, next_id, deleted, ws, http, call, listing, upload, codec, profile, sessions, manager, handlers>>

\* delete_voice without the removal of the directory.
RemoveTree_Skipped(voice_id) == dirs

\* shutil.rmtree(voice_dir, ignore_errors=True) of delete_voice.
RemoveTree(voice_id) == dirs \ {voice_id}

\* DELETE /voices/{id} -> delete_voice: files first, then the row.
DeleteVoice(voice_id, committed) ==
    /\ IF get_voice(voice_id) = NoVoice
       THEN /\ last' = Answer("delete", "404")
            /\ UNCHANGED <<db, dirs, deleted>>
       ELSE /\ dirs' = RemoveTree(voice_id)
            /\ IF committed
               THEN /\ db' = [db EXCEPT ![voice_id] = NoVoice]
                    /\ deleted' = deleted \cup {voice_id}
                    /\ last' = Answer("delete", "204")
               ELSE /\ UNCHANGED <<db, deleted>>
                    /\ last' = Answer("delete", "500")
    /\ UNCHANGED <<next_id, ws, http, call, listing, upload, codec, profile, sessions, manager, handlers>>

\* ---------------------------------------------------------------------------
\* WebSocket handlers (api/v1/websocket.py)
\* ---------------------------------------------------------------------------

\* Inputs of the requests drawn by the peer.
Emotions == {NoEmotion, "angry"}
RequestDefaultLanguage == "hi"

\* A text message from the peer:
\*   not_json    json.loads raises JSONDecodeError
\*   not_object  valid JSON that is no object: TTSStreamRequest(**data) raises TypeError
\*   invalid     an object that TTSStreamRequest rejects (ValidationError)
\*   request     a TTSStreamRequest
StreamRequests ==
    [voice_id : RequestIds, model : Models, emotion : Emotions,
     language : {RequestDefaultLanguage}]
Messages ==
    [kind : {"not_json", "not_object", "invalid"}, req : {NoRequest}]
        \cup [kind : {"request"}, req : StreamRequests]

\* Frames sent to the peer; n is total_chunks of an end frame and chunk_index
\* of a chunk frame.
StartFrame == [type |-> "start", code |-> "-", n |-> 0]
ChunkFrame(index) == [type |-> "chunk", code |-> "-", n |-> index]
BinaryFrame == [type |-> "binary", code |-> "-", n |-> 0]
EndFrame(total) == [type |-> "end", code |-> "-", n |-> total]
ErrorFrame(code) == [type |-> "error", code |-> code, n |-> 0]

\* The code of the error frame each endpoint sends for a message that does not
\* parse into a TTSStreamRequest.
ParseErrorCode(e, kind) ==
    IF e = "json"
    THEN (IF kind = "not_json" THEN "INVALID_JSON" ELSE "VALIDATION_ERROR")
    ELSE "PARSE_ERROR"

\* The code of the error frame each endpoint sends when stream_synthesis
\* raises TTSClientError.
ClientErrorCode(e) == IF e = "json" THEN "TTS_CLIENT_ERROR" ELSE "TTS_ERROR"

\* LookupJson without its status test.
LookupJson_NoStatusTest(voice_id) ==
    IF get_voice(voice_id) = NoVoice THEN "VOICE_NOT_FOUND"
    ELSE IF get_voice_audio_path(voice_id) # "ok" THEN "AUDIO_PATH_ERROR"
    ELSE "ok"

\* The voice lookup of a stream request: the error code it ends with, or "ok".
\* process_tts_stream: get_voice, the status test, get_voice_audio_path.
LookupJson(voice_id) ==
    IF get_voice(voice_id) = NoVoice THEN "VOICE_NOT_FOUND"
    ELSE IF get_voice(voice_id).processing_status # "ready" THEN "VOICE_NOT_READY"
    ELSE IF get_voice_audio_path(voice_id) # "ok" THEN "AUDIO_PATH_ERROR"
    ELSE "ok"

\* tts_stream_binary_endpoint: get_voice and get_voice_audio_path under one
\* except Exception, then the status test.
LookupBinary(voice_id) ==
    IF get_voice(voice_id) = NoVoice THEN "VOICE_ERROR"
    ELSE IF get_voice_audio_path(voice_id) # "ok" THEN "VOICE_ERROR"
    ELSE IF get_voice(voice_id).processing_status # "ready" THEN "VOICE_NOT_READY"
    ELSE "ok"

\* The store calls a lookup makes before it ends.
LookupCalls(e, voice_id) ==
    IF get_voice(voice_id) = NoVoice THEN 1
    ELSE IF e = "json" /\ get_voice(voice_id).processing_status # "ready" THEN 1
    ELSE 2

\* What a handler saw as the voice's status when it looked.
Seen(voice_id) ==
    IF get_voice(voice_id) = NoVoice THEN "absent"
    ELSE get_voice(voice_id).processing_status

\* manager.connect: accept, register, enter the receive loop.
Connect(e) ==
    /\ ws.pc = "closed"
    /\ ws' = [WsClosed("-") EXCEPT !.pc = "receive", !.endpoint = e]
    /\ UNCHANGED <<db, dirs, next_id, deleted, last, http, call, listing, upload, codec, profile, sessions, manager, handlers>>

\* receive_text raises WebSocketDisconnect; finally: manager.disconnect.
PeerDisconnect ==
    /\ ws.pc = "receive"
    /\ ws' = [WsClosed("peer") EXCEPT !.endpoint = ws.endpoint]
    /\ UNCHANGED <<db, dirs, next_id, deleted, last, http, call, listing, upload, codec, profile, sessions, manager, handlers>>

\* An exception that is neither caught inside the loop nor WebSocketDisconnect
\* leaves the loop (logged by /stream, propagated by /stream/binary); finally:
\* manager.disconnect.
LoopExit(conn) ==
    [conn EXCEPT !.pc = "closed", !.exit = "exception", !.req = NoRequest,
                 !.audio_path = NoPath, !.items = <<>>]

\* The connection without the record of its last request.
Forget(conn) == [WsClosed("-") EXCEPT !.pc = conn.pc, !.endpoint = conn.endpoint]

\* The handler is back at receive_text.
Await(conn) ==
    [conn EXCEPT !.pc = "receive", !.req = NoRequest, !.audio_path = NoPath,
                 !.items = <<>>]

\* receive_text, json.loads and TTSStreamRequest(**request_data).
Receive(m) ==
    /\ ws.pc = "receive"
    /\ http.pc = "idle"
    /\ LET e == ws.endpoint
           fresh == [Forget(ws) EXCEPT !.msg = m.kind]
       IN  ws' =
              CASE m.kind = "request"    -> [fresh EXCEPT !.pc = "lookup", !.req = m.req]
                [] m.kind = "not_object" -> LoopExit(fresh)
                [] OTHER -> [fresh EXCEPT !.frames = <<ErrorFrame(ParseErrorCode(e, m.kind))>>]
    /\ http' = HttpIdle
    /\ UNCHANGED <<db, dirs, next_id, deleted, last, call, listing, upload, codec, profile, sessions, manager, handlers>>

\* The voice lookup and, when it passes, the start frame.
Lookup ==
    /\ ws.pc = "lookup"
    /\ LET e == ws.endpoint
           id == ws.req.voice_id
           code == IF e = "json" THEN LookupJson(id) ELSE LookupBinary(id)
           looked == [ws EXCEPT !.lookups = LookupCalls(e, id), !.seen = Seen(id)]
       IN  ws' =
              IF code = "ok"
              THEN [looked EXCEPT !.pc = "stream", !.audio_path = id,
                                  !.frames = <<StartFrame>>]
              ELSE Await([looked EXCEPT !.frames = <<ErrorFrame(code)>>])
    /\ UNCHANGED <<db, dirs, next_id, deleted, last, http, call, listing, upload, codec, profile, sessions, manager, handlers>>

\* The first step of "async for chunk in tts_client.stream_synthesis(...)":
\* the one synthesize call; both endpoints pass the path for chatterbox only.
Stream(resp) ==
    /\ ws.pc = "stream"
    /\ LET e == ws.endpoint
           q == ws.req
           r == stream_synthesis(q.model,
                                 IF q.model = "chatterbox" THEN ws.audio_path ELSE NoPath,
                                 q.emotion, dirs, resp)
           called == [ws EXCEPT !.posts = @ + r.posts, !.remote = resp]
       IN  ws' =
              CASE r.outcome = "TTSClientError" ->
                     Await([called EXCEPT !.frames = Append(@, ErrorFrame(ClientErrorCode(e)))])
                [] r.outcome = "Exception" -> LoopExit(called)
                [] OTHER -> [called EXCEPT !.pc = "iterate", !.items = r.items]
    /\ UNCHANGED <<db, dirs, next_id, deleted, last, http, call, listing, upload, codec, profile, sessions, manager, handlers>>

\* The body of the async for, once per item: a chunk (or binary) frame for a
\* non-final item, the end frame for the final one.
Iterate ==
    /\ ws.pc = "iterate"
    /\ ws.items # <<>>
    /\ LET item == Head(ws.items)
       IN  ws' =
              IF item.is_final
              THEN Await([ws EXCEPT !.frames = Append(@, EndFrame(ws.total_chunks))])
              ELSE [ws EXCEPT !.items = Tail(@),
                              !.total_chunks = @ + 1,
                              !.frames = Append(@, IF ws.endpoint = "json"
                                                   THEN ChunkFrame(item.chunk_index)
                                                   ELSE BinaryFrame)]
    /\ UNCHANGED <<db, dirs, next_id, deleted, last, http, call, listing, upload, codec, profile, sessions, manager, handlers>>

\* ---------------------------------------------------------------------------
\* HTTP synthesis handlers (api/v1/tts.py); synthesize_speech and
\* synthesize_audio share the code up to the use of the result.
\* ---------------------------------------------------------------------------

Routes == {"synthesize", "synthesize_audio"}
Languages == {RequestDefaultLanguage, "xx"}

TTSRequests ==
    [voice_id : RequestIds, model : Models, emotion : Emotions, language : Languages]

\* The status the lookup part of a handler answers with, or "ok".
LookupHttp(voice_id) ==
    IF get_voice(voice_id) = NoVoice THEN "404"
    ELSE IF get_voice(voice_id).processing_status # "ready" THEN "400"
    ELSE IF get_voice_audio_path(voice_id) # "ok" THEN "500"
    ELSE "ok"

\* SynthesisStatus with TTSClientError left to the server's default handler.
SynthesisStatus_Uncaught(r) ==
    CASE r.outcome = "ok" /\ r.body # "no_audio" -> "200"
      [] OTHER                                   -> "500"

\* The status answered after tts_client.synthesize: 502 for TTSClientError,
\* 500 for any other exception (also result["audio_base64"] on a body without
\* it), 200 otherwise.
SynthesisStatus(r) ==
    CASE r.outcome = "TTSClientError" -> "502"
      [] r.outcome = "Exception"      -> "500"
      [] r.body = "no_audio"          -> "500"
      [] OTHER                        -> "200"

\* get_voice, the status test and get_voice_audio_path.
HttpLookup(route, q) ==
    /\ http.pc = "idle"
    /\ ws.pc \in {"closed", "receive"}
    /\ LET code == LookupHttp(q.voice_id)
           looked == [HttpIdle EXCEPT !.route = route, !.seen = Seen(q.voice_id)]
       IN  http' = IF code = "ok"
                   THEN [looked EXCEPT !.pc = "synth", !.req = q, !.audio_path = q.voice_id]
                   ELSE [looked EXCEPT !.status = code]
    /\ ws' = Forget(ws)
    /\ UNCHANGED <<db, dirs, next_id, deleted, last, call, listing, upload, codec, profile, sessions, manager, handlers>>

\* tts_client.synthesize and the answer; the path is passed for chatterbox and
\* xtts only.
HttpSynthesize(resp) ==
    /\ http.pc = "synth"
    /\ LET q == http.req
           r == synthesize(q.model,
                           IF q.model \in {"chatterbox", "xtts"} THEN http.audio_path ELSE NoPath,
                           q.language, q.emotion, dirs, resp)
       IN  http' = [http EXCEPT !.pc = "idle", !.req = NoRequest, !.audio_path = NoPath,
                                !.posts = r.posts, !.status = SynthesisStatus(r),
                                !.remote = resp, !.outcome = r.outcome]
    /\ UNCHANGED <<db, dirs, next_id, deleted, last, ws, call, listing, upload, codec, profile, sessions, manager, handlers>>

\* ---------------------------------------------------------------------------
\* Audio validation (utils/audio.py validate_audio_file)
\*
\* An uploaded file is given by the length of its content in bytes, its name,
\* whether soundfile can read it and, when it can, the duration it measures,
\* in hundredths of a second.
\* ---------------------------------------------------------------------------

\* settings.max_voice_sample_size_mb and the bytes of a megabyte.
max_voice_sample_size_mb == 50
BytesPerMb == 1048576

\* settings.allowed_audio_formats
allowed_audio_formats == {"wav", "mp3", "flac", "ogg", "m4a"}

\* n seconds as a duration.
Seconds(n) == n * 100

\* Path(filename).suffix.lower().lstrip(".") of the file names uploaded.
Filenames == {"voice.wav", "VOICE.MP3", "notes.txt", "voice"}
Ext(filename) ==
    CASE filename = "voice.wav" -> "wav"
      [] filename = "VOICE.MP3" -> "mp3"
      [] filename = "notes.txt" -> "txt"
      [] OTHER                  -> ""

\* Lengths at and around the ceiling; durations at, around and between the
\* two limits, with and without a digit in the hundredths.
FileSizes ==
    {1, max_voice_sample_size_mb * BytesPerMb, max_voice_sample_size_mb * BytesPerMb + 1}
Durations ==
    {Seconds(3) - 10, Seconds(3) - 4, Seconds(3), Seconds(12), Seconds(60),
     Seconds(60) + 4, Seconds(60) + 10}
Files == [size : FileSizes, filename : Filenames, readable : BOOLEAN, duration : Durations]

\* f"{duration:.1f}": the duration printed in tenths of a second (none of the
\* durations above lies halfway between two tenths).
OneDecimal(duration) == (duration + 5) \div 10

\* No duration in a message.
NotShown == -1

\* AudioProcessingError with its message: which check wrote it, the duration
\* it prints and the text put in front of it by a caller.
Rejected(check, shown) ==
    [outcome |-> "AudioProcessingError",
     message |-> [check |-> check, shown |-> shown, prefix |-> "-"]]
Accepted ==
    [outcome |-> "ok", message |-> [check |-> "-", shown |-> NotShown, prefix |-> "-"]]

\* validate_audio_file with the duration tests before the extension test.
validate_audio_file_DurationFirst(f) ==
    IF f.size > max_voice_sample_size_mb * BytesPerMb THEN Rejected("size", NotShown)
    ELSE IF ~f.readable THEN Rejected("read", NotShown)
    ELSE IF f.duration < Seconds(3) THEN Rejected("short", OneDecimal(f.duration))
    ELSE IF f.duration > Seconds(60) THEN Rejected("long", OneDecimal(f.duration))
    ELSE IF Ext(f.filename) \notin allowed_audio_formats THEN Rejected("format", NotShown)
    ELSE Accepted

\* validate_audio_file: size, extension, get_audio_info, minimum and maximum
\* duration.
validate_audio_file(f) ==
    IF f.size > max_voice_sample_size_mb * BytesPerMb THEN Rejected("size", NotShown)
    ELSE IF Ext(f.filename) \notin allowed_audio_formats THEN Rejected("format", NotShown)
    ELSE IF ~f.readable THEN Rejected("read", NotShown)
    ELSE IF f.duration < Seconds(3) THEN Rejected("short", OneDecimal(f.duration))
    ELSE IF f.duration > Seconds(60) THEN Rejected("long", OneDecimal(f.duration))
    ELSE Accepted

\* A direct call validate_audio_file(file_content, filename).
ValidateAudioFile(f) ==
    /\ LET v == validate_audio_file(f)
       IN  upload' = [given |-> TRUE, via |-> "validate", file |-> f, outcome |-> v.outcome,
                      raised |-> IF v.outcome = "ok" THEN "-" ELSE v.outcome,
                      message |-> v.message, normalize_called |-> FALSE]
    /\ UNCHANGED <<db, dirs, next_id, deleted, last, ws, http, call, listing, codec, profile, sessions, manager, handlers>>

\* POST /voices/clone -> create_voice with the uploaded file f: the file is
\* accepted as validate_audio_file decides; VoiceServiceError carries
\* str(e) of the validator's error, or "Failed to process audio: ..." when
\* normalize_audio raised.
CreateVoiceFrom(f, normalized, committed) ==
    /\ LET v == validate_audio_file(f)
           valid == v.outcome = "ok"
       IN  /\ create_voice(valid, normalized, committed)
           /\ upload' =
                 [given |-> TRUE, via |-> "create", file |-> f, outcome |-> v.outcome,
                  raised |-> IF valid /\ normalized THEN "-" ELSE "VoiceServiceError",
                  message |-> IF valid /\ ~normalized
                              THEN [check |-> "normalize", shown |-> NotShown,
                                    prefix |-> "Failed to process audio: "]
                              ELSE v.message,
                  normalize_called |-> valid]
    /\ UNCHANGED <<deleted, ws, http, call, listing, codec, profile, sessions, manager, handlers>>

\* Field(min_length=1, max_length=255) of name and Field(max_length=10) of
\* language in VoiceBase.
name_min_length == 1
name_max_length == 255
language_max_length == 10

\* The form fields of POST /voices/clone by their lengths.
Metadata ==
    [name : {0, name_min_length, name_max_length, name_max_length + 1},
     language : {2, language_max_length, language_max_length + 1}]

\* A name of one character with the default language "en", and a file that
\* validate_audio_file accepts.
DefaultMetadata == [name |-> name_min_length, language |-> 2]
GoodFile == [size |-> 1, filename |-> "voice.wav", readable |-> TRUE, duration |-> Seconds(12)]

\* VoiceCreate(name=..., language=...): TRUE when the schema accepts the
\* fields, FALSE when it raises pydantic's ValidationError.
VoiceCreate(meta) ==
    /\ meta.name >= name_min_length
    /\ meta.name <= name_max_length
    /\ meta.language <= language_max_length

\* POST /voices/clone: clone_voice builds VoiceCreate before its try block,
\* which catches VoiceServiceError only; a ValidationError reaches
\* global_exception_handler and is answered 500. An empty required form field
\* may be refused by the form parser (422) before clone_voice runs.
CloneVoice(meta, refused, f, normalized, committed) ==
    IF meta.name = 0 /\ refused
    THEN /\ upload' = [NoUpload EXCEPT !.given = TRUE, !.via = "clone", !.file = f,
                                       !.outcome = "RequestValidationError",
                                       !.raised = "RequestValidationError",
                                       !.message.check = "metadata"]
         /\ last' = Answer("create", "422")
         /\ UNCHANGED <<db, dirs, next_id, deleted, ws, http, call, listing, codec, profile,
                         sessions, manager, handlers>>
    ELSE IF ~VoiceCreate(meta)
    THEN /\ upload' = [NoUpload EXCEPT !.given = TRUE, !.via = "clone", !.file = f,
                                       !.outcome = "ValidationError",
                                       !.raised = "ValidationError",
                                       !.message.check = "metadata"]
         /\ last' = Answer("create", "500")
         /\ UNCHANGED <<db, dirs, next_id, deleted, ws, http, call, listing, codec, profile,
                         sessions, manager, handlers>>
    ELSE CreateVoiceFrom(f, normalized, committed)

\* ---------------------------------------------------------------------------
\* GET /voices (api/v1/voices.py list_voices over VoiceService.list_voices)
\*
\* The table is given by its rows in the order of created_at, oldest first,
\* each row by its is_active; a row is named by its rank in that order.
\* ---------------------------------------------------------------------------

\* Number of rows of the tables that are listed.
MaxRows == 3

\* The route's replacement for a page_size below 1 and its upper limit.
DefaultPageSize == 20
MaxPageSize == 100

Tables == UNION {[1..n -> BOOLEAN] : n \in 0..MaxRows}
PageArgs == 0..3
PageSizeArgs == {0, 1, 2, MaxPageSize, MaxPageSize + 1}

\* if page < 1: page = 1
EffectivePage(page) == IF page < 1 THEN 1 ELSE page

\* if page_size < 1: page_size = 20; if page_size > 100: page_size = 100
EffectivePageSize(page_size) ==
    IF page_size < 1 THEN DefaultPageSize
    ELSE IF page_size > MaxPageSize THEN MaxPageSize
    ELSE page_size

\* where(Voice.is_active == True) when active_only.
Matching(rows, active_only) == {i \in DOMAIN rows : ~active_only \/ rows[i]}

\* order_by(Voice.created_at.desc()).
RECURSIVE NewestFirst(_)
NewestFirst(S) ==
    IF S = {} THEN <<>>
    ELSE LET newest == CHOOSE i \in S : \A j \in S : j <= i
         IN  <<newest>> \o NewestFirst(S \ {newest})

\* The offset counted from the page number itself.
Offset_FromPage(page, page_size) == page * page_size

\* offset = (page - 1) * page_size
Offset(page, page_size) == (page - 1) * page_size

\* math.ceil(total / page_size) if total > 0 else 1
TotalPages(total, page_size) ==
    IF total > 0 THEN (total + page_size - 1) \div page_size ELSE 1

\* VoiceService.list_voices: the rows of the page and the count of the rows
\* that match the filter.
list_voices(rows, page, page_size, active_only) ==
    LET ordered == NewestFirst(Matching(rows, active_only))
        total == Cardinality(Matching(rows, active_only))
        offset == Offset(page, page_size)
        first == offset + 1
        lastRow == IF offset + page_size < total THEN offset + page_size ELSE total
    IN  [voices |-> SubSeq(ordered, first, lastRow), total |-> total]

\* GET /voices?page&page_size&active_only over a table with the given rows.
ListVoices(rows, page_arg, page_size_arg, active_only) ==
    /\ LET page == EffectivePage(page_arg)
           page_size == EffectivePageSize(page_size_arg)
           r == list_voices(rows, page, page_size, active_only)
       IN  listing' = [asked |-> TRUE, rows |-> rows, page_arg |-> page_arg,
                       page_size_arg |-> page_size_arg, active_only |-> active_only,
                       items |-> r.voices, total |-> r.total, page |-> page,
                       page_size |-> page_size,
                       total_pages |-> TotalPages(r.total, page_size)]
    /\ UNCHANGED <<db, dirs, next_id, deleted, last, ws, http, call, upload, codec, profile, sessions, manager, handlers>>

\* ---------------------------------------------------------------------------
\* Direct calls of the synthesis client (services/tts_client.py)
\* ---------------------------------------------------------------------------

\* Arguments of a call of TTSClient.synthesize: a model name outside the four,
\* a language of both language lists ("hi"), of the XTTS list only ("en"), of
\* the svara list only ("bn") and of neither ("xx"), emotions None, "", inside
\* and outside SVARA_EMOTIONS, no path, a path never written (UnknownId) and a
\* voice's processed.wav.
ClientModels == Models \cup {"bark"}
ClientLanguages == {"hi", "en", "bn", "xx"}
ClientEmotions == {NoEmotion, "", "happy", "angry"}
ClientPaths == {NoPath} \cup RequestIds
\* The remote answers, with one more 200 body that carries the fields model
\* "orpheus" and language "en" next to the audio.
ClientResponses == RemoteResponses \cup {"audio_orpheus_en"}

\* await tts_client.synthesize(text, model, audio_path, language, emotion), by
\* a caller that makes its calls one after the other.
Synthesize(model, audio_path, language, emotion, resp) ==
    /\ call = NoCall
    /\ call' = [model |-> model, audio_path |-> audio_path, language |-> language,
                emotion |-> emotion, resp |-> resp,
                exists |-> PathExists(audio_path, dirs),
                result |-> synthesize(model, audio_path, language, emotion, dirs, resp)]
    /\ UNCHANGED <<db, dirs, next_id, deleted, last, ws, http, listing, upload, codec, profile, sessions, manager, handlers>>

\* A direct call TTSClient.stream_synthesis(text, model, audio_path,
\* emotion=emotion) that is iterated to its end; result.items are the items
\* it yielded.
StreamSynthesis(model, audio_path, emotion, resp) ==
    /\ call = NoCall
    /\ call' = [model |-> model, audio_path |-> audio_path,
                language |-> StreamDefaultLanguage, emotion |-> emotion, resp |-> resp,
                exists |-> PathExists(audio_path, dirs),
                result |-> stream_synthesis(model, audio_path, emotion, dirs, resp)]
    /\ UNCHANGED <<db, dirs, next_id, deleted, last, ws, http, listing, upload, codec, profile, sessions, manager, handlers>>

\* The caller has taken the result (or the exception) of its call.
Returned ==
    /\ call # NoCall
    /\ call' = NoCall
    /\ UNCHANGED <<db, dirs, next_id, deleted, last, ws, http, listing, upload, codec, profile, sessions, manager, handlers>>

\* ---------------------------------------------------------------------------
\* Audio over base64 (utils/audio.py audio_to_base64, base64_to_audio)
\*
\* A sample is given in steps of 1/32767 of full scale, a file by its bytes:
\* the sample rate and the size of the data, four bytes each, least
\* significant first, then two bytes for each sample (WAV's default PCM_16).
\* A base64 text is given by the values 0..63 of its characters and Pad.
\* ---------------------------------------------------------------------------

\* Length of the sample arrays that are encoded.
MaxSamples == 2

SampleValues == {-32767, -1, 0, 1, 32767}
SampleArrays == UNION {[1..n -> SampleValues] : n \in 1..MaxSamples}
SampleRates == {1, 24000, 44100, 96000}

\* The character "=" that fills the last group of a base64 text.
Pad == 64

\* v in `width` bytes, least significant first, and back.
LittleEndian(v, width) == [i \in 1..width |-> (v \div (256 ^ (i - 1))) % 256]
RECURSIVE FromLittleEndian(_)
FromLittleEndian(bytes) ==
    IF Len(bytes) = 0 THEN 0 ELSE bytes[1] + 256 * FromLittleEndian(Tail(bytes))

\* A 16-bit sample as an unsigned word, and back.
ToWord(sample) == IF sample < 0 THEN sample + 65536 ELSE sample
FromWord(word) == IF word >= 32768 THEN word - 65536 ELSE word

\* sf.write(buffer, audio_data, sample_rate, format="WAV") with a header that
\* keeps two bytes of the sample rate.
sf_write_ShortRate(audio_data, sample_rate) ==
    LittleEndian(sample_rate, 2) \o <<0, 0>> \o LittleEndian(2 * Len(audio_data), 4)
        \o [i \in 1..(2 * Len(audio_data)) |->
               LittleEndian(ToWord(audio_data[(i + 1) \div 2]), 2)[((i - 1) % 2) + 1]]

\* sf.write(buffer, audio_data, sample_rate, format="WAV"): the bytes of the
\* file.
sf_write(audio_data, sample_rate) ==
    LittleEndian(sample_rate, 4) \o LittleEndian(2 * Len(audio_data), 4)
        \o [i \in 1..(2 * Len(audio_data)) |->
               LittleEndian(ToWord(audio_data[(i + 1) \div 2]), 2)[((i - 1) % 2) + 1]]

\* sf.read(buffer): the samples and the sample rate of the file.
sf_read(bytes) ==
    [sample_rate |-> FromLittleEndian(SubSeq(bytes, 1, 4)),
     data |-> [i \in 1..(FromLittleEndian(SubSeq(bytes, 5, 8)) \div 2) |->
                  FromWord(FromLittleEndian(SubSeq(bytes, 7 + 2 * i, 8 + 2 * i)))]]

\* base64.b64encode: three bytes become four characters, the last group is
\* filled with Pad.
RECURSIVE b64encode(_)
b64encode(bytes) ==
    IF Len(bytes) = 0 THEN <<>>
    ELSE IF Len(bytes) = 1
    THEN <<bytes[1] \div 4, (bytes[1] % 4) * 16, Pad, Pad>>
    ELSE IF Len(bytes) = 2
    THEN <<bytes[1] \div 4, (bytes[1] % 4) * 16 + bytes[2] \div 16, (bytes[2] % 16) * 4, Pad>>
    ELSE <<bytes[1] \div 4, (bytes[1] % 4) * 16 + bytes[2] \div 16,
           (bytes[2] % 16) * 4 + bytes[3] \div 64, bytes[3] % 64>>
             \o b64encode(SubSeq(bytes, 4, Len(bytes)))

\* base64.b64decode: four characters become up to three bytes.
RECURSIVE b64decode(_)
b64decode(text) ==
    IF Len(text) = 0 THEN <<>>
    ELSE LET first == text[1] * 4 + text[2] \div 16
             second == (text[2] % 16) * 16 + text[3] \div 4
             third == (text[3] % 4) * 64 + text[4]
         IN  IF text[3] = Pad THEN <<first>>
             ELSE IF text[4] = Pad THEN <<first, second>>
             ELSE <<first, second, third>> \o b64decode(SubSeq(text, 5, Len(text)))

\* audio_to_base64(audio_data, sample_rate).
audio_to_base64(audio_data, sample_rate) == b64encode(sf_write(audio_data, sample_rate))

\* base64_to_audio(base64_string): (data, sample_rate).
base64_to_audio(base64_string) == sf_read(b64decode(base64_string))

\* A call audio_to_base64(audio_data, sample_rate).
AudioToBase64(audio_data, sample_rate) ==
    /\ codec' = [NoCodec EXCEPT !.given = TRUE, !.audio_data = audio_data,
                                !.sample_rate = sample_rate,
                                !.encoded = audio_to_base64(audio_data, sample_rate)]
    /\ UNCHANGED <<db, dirs, next_id, deleted, last, ws, http, call, listing, upload, profile, sessions, manager, handlers>>

\* A call base64_to_audio(encoded) with the text the last call returned.
Base64ToAudio ==
    /\ codec.given
    /\ ~codec.decoded
    /\ LET read == base64_to_audio(codec.encoded)
       IN  codec' = [codec EXCEPT !.decoded = TRUE, !.recovered_audio = read.data,
                                  !.recovered_sr = read.sample_rate]
    /\ UNCHANGED <<db, dirs, next_id, deleted, last, ws, http, call, listing, upload, profile, sessions, manager, handlers>>

\* ---------------------------------------------------------------------------
\* Updates of a stored profile (VoiceService.update_voice,
\* update_processing_status, models/voice.py, schemas/voice.py, get_db)
\*
\* A request works in a session of its own: get_voice loads the row, the
\* handler assigns attributes of the loaded object, flush sends an UPDATE that
\* sets the columns whose value differs from the loaded one (none is sent when
\* no value differs) together with updated_at (onupdate), and get_db commits.
\* The row stays locked from the UPDATE to the commit, so the two are one
\* step for every other session.
\* ---------------------------------------------------------------------------

\* UPDATE statements a profile receives.
MaxUpdates == 2

\* The id uuid4 gave the stored profile.
StoredId == 1

\* Voice(...) of create_voice; updated_at counts the UPDATEs of the row.
NewProfile ==
    [id |-> "v1", name |-> "n0", description |-> None, processed_audio_path |-> "v1/processed.wav",
     chatterbox_data |-> "audio_path", orpheus_data |-> None, language |-> "en",
     tags |-> None, is_active |-> TRUE, processing_status |-> "pending",
     processing_error |-> None, updated_at |-> 0]

\* The columns declared without Optional, where NULL is refused, among those
\* that hold a string; no request gives null for is_active.
NotNullColumns == {"id", "name", "processed_audio_path", "language", "processing_status"}

\* The fields of VoiceUpdate.
VoiceUpdateFields == {"name", "description", "language", "tags", "is_active"}

\* JSON bodies of PATCH /voices/{id}: any of the fields of VoiceUpdate, null
\* included, with or without keys the schema does not have.
WithKey(bodies, key, values) ==
    bodies \cup {body @@ (key :> value) : body \in bodies, value \in values}
UpdateBodies ==
    LET declared ==
            WithKey(WithKey(WithKey(WithKey(WithKey({<<>>},
                "name", {"n0", "n1", None}),
                "description", {"d1", None}),
                "language", {"hi"}),
                "tags", {"t1"}),
                "is_active", BOOLEAN)
    IN  declared \cup
            {body @@ [id |-> "v2", processed_audio_path |-> "v2/processed.wav",
                      processing_status |-> "ready"] : body \in declared}

\* VoiceUpdate that keeps the keys it does not declare (extra="allow").
VoiceUpdate_AllowExtra(body) == body

\* VoiceUpdate parsed from the body, then model_dump(exclude_unset=True): the
\* declared fields the body holds; other keys are ignored.
VoiceUpdate(body) == [f \in (DOMAIN body) \cap VoiceUpdateFields |-> body[f]]

\* Arguments of update_processing_status.
ErrorArgs == {None, "normalization failed"}
BlobArgs == {None, "{}", "embedding"}

\* bool(data) of a dict or None.
NotEmpty(data) == data # None /\ data # "{}"

\* The assignments of update_processing_status with the blobs assigned
\* whatever they hold.
update_processing_status_Unconditional(voice, status, error, chatterbox_data, orpheus_data) ==
    [voice EXCEPT !.processing_status = status,
                  !.processing_error = error,
                  !.chatterbox_data = chatterbox_data,
                  !.orpheus_data = orpheus_data]

\* The assignments of update_processing_status to the loaded object.
update_processing_status(voice, status, error, chatterbox_data, orpheus_data) ==
    [voice EXCEPT !.processing_status = status,
                  !.processing_error = error,
                  !.chatterbox_data = IF NotEmpty(chatterbox_data) THEN chatterbox_data ELSE @,
                  !.orpheus_data = IF NotEmpty(orpheus_data) THEN orpheus_data ELSE @]

\* The loaded object after the handler of session s has assigned to it.
Assigned(s) ==
    IF s.kind = "update" THEN ApplyUpdate(s.loaded, s.update)
    ELSE update_processing_status(s.loaded, s.status, s.error, s.chatterbox_data,
                                  s.orpheus_data)

\* The columns the UPDATE of a flush sets: those assigned a value that differs
\* from the loaded one.
Changed(loaded, current) == {f \in DOMAIN current : current[f] # loaded[f]}

\* The stored row after the UPDATE of a flush (no UPDATE when nothing changed).
Flush(loaded, current, stored) ==
    IF Changed(loaded, current) = {} THEN stored
    ELSE [f \in DOMAIN stored |->
             IF f \in Changed(loaded, current) THEN current[f]
             ELSE IF f = "updated_at" THEN stored.updated_at + 1
             ELSE stored[f]]

\* select(Voice).where(Voice.id == voice_id) of get_voice.
SelectProfile(voice_id) == IF voice_id = StoredId THEN profile ELSE NoVoice

\* POST /voices/clone has stored the profile.
InsertProfile ==
    /\ profile = NoVoice
    /\ profile' = NewProfile
    /\ UNCHANGED <<db, dirs, next_id, deleted, last, ws, http, call, listing, upload, codec, sessions, manager, handlers>>

\* get_voice of a request; VoiceNotFoundError ends it.
Load(s, request) ==
    /\ sessions[s].pc = "idle"
    /\ IF profile = NoVoice THEN TRUE ELSE profile.updated_at < MaxUpdates
    /\ LET voice == SelectProfile(request.voice_id)
       IN  sessions' = [sessions EXCEPT ![s] =
               IF voice = NoVoice
               THEN [request EXCEPT !.pc = "done", !.result = "VoiceNotFoundError"]
               ELSE [request EXCEPT !.pc = "loaded", !.loaded = voice]]

\* PATCH /voices/{id} -> update_voice, up to get_voice.
BeginUpdateVoice(s, voice_id, body) ==
    /\ Load(s, [NoSession EXCEPT !.kind = "update", !.voice_id = voice_id,
                                 !.update = VoiceUpdate(body)])
    /\ UNCHANGED <<db, dirs, next_id, deleted, last, ws, http, call, listing, upload, codec, profile, manager, handlers>>

\* update_processing_status, up to get_voice.
BeginUpdateProcessingStatus(s, voice_id, status, error, chatterbox_data, orpheus_data) ==
    /\ Load(s, [NoSession EXCEPT !.kind = "status", !.voice_id = voice_id,
                                 !.status = status, !.error = error,
                                 !.chatterbox_data = chatterbox_data,
                                 !.orpheus_data = orpheus_data])
    /\ UNCHANGED <<db, dirs, next_id, deleted, last, ws, http, call, listing, upload, codec, profile, manager, handlers>>

\* The rest of the request: the assignments, flush and the commit of get_db.
\* An UPDATE that sets a NOT NULL column to NULL raises IntegrityError, and
\* the session is rolled back.  order is the rank of the commit among the
\* commits of the sessions.
FlushAndCommit(s) ==
    /\ sessions[s].pc = "loaded"
    /\ LET current == Assigned(sessions[s])
           changed == Changed(sessions[s].loaded, current)
       IN  IF \E f \in changed \cap NotNullColumns : current[f] = None
           THEN /\ sessions' = [sessions EXCEPT ![s].pc = "done", ![s].result = "IntegrityError"]
                /\ profile' = profile
           ELSE /\ sessions' = [sessions EXCEPT ![s].pc = "done", ![s].result = "ok",
                                                ![s].order =
                                    Cardinality({t \in SessionIds : sessions[t].order > 0}) + 1]
                /\ profile' = Flush(sessions[s].loaded, current, profile)
    /\ UNCHANGED <<db, dirs, next_id, deleted, last, ws, http, call, listing, upload, codec, manager, handlers>>

\* The request was answered and its session closed.
CloseSession(s) ==
    /\ sessions[s].pc = "done"
    /\ sessions' = [sessions EXCEPT ![s] = NoSession]
    /\ UNCHANGED <<db, dirs, next_id, deleted, last, ws, http, call, listing, upload, codec, profile, manager, handlers>>

\* ---------------------------------------------------------------------------
\* Connection registry (api/v1/websocket.py ConnectionManager and the two
\* endpoint handlers around their receive loops)
\* ---------------------------------------------------------------------------

\* str(uuid.uuid4()): an identifier no handler was given before.
uuid4 == Cardinality({c \in Connections : handlers[c].client_id # NoClientId}) + 1

\* self.active_connections[client_id] = websocket of connect.
connect(active_connections, client_id, websocket) ==
    [active_connections EXCEPT ![client_id] = websocket]

\* disconnect that leaves the entry in place.
disconnect_Kept(active_connections, client_id) == active_connections

\* disconnect: if client_id in self.active_connections: del ...
disconnect(active_connections, client_id) ==
    IF active_connections[client_id] # NoConnection
    THEN [active_connections EXCEPT ![client_id] = NoConnection]
    ELSE active_connections

\* A handler of endpoint e starts for connection c: client_id = str(uuid4()).
Offer(c, e) ==
    /\ handlers[c].pc = "none"
    /\ handlers' = [handlers EXCEPT ![c] =
                       [NoHandler EXCEPT !.pc = "accept", !.endpoint = e, !.client_id = uuid4]]
    /\ UNCHANGED <<db, dirs, next_id, deleted, last, ws, http, call, listing, upload, codec, profile, sessions, manager>>

\* manager.connect: websocket.accept(), which raises when the peer has gone
\* and then ends the handler before its try block, and the registration.
Accept(c, accepted) ==
    /\ handlers[c].pc = "accept"
    /\ IF accepted
       THEN /\ manager' = [manager EXCEPT !.active_connections =
                              connect(@, handlers[c].client_id, c)]
            /\ handlers' = [handlers EXCEPT ![c].pc = "loop"]
       ELSE /\ manager' = manager
            /\ handlers' = [handlers EXCEPT ![c].pc = "exited", ![c].exit = "accept"]
    /\ UNCHANGED <<db, dirs, next_id, deleted, last, ws, http, call, listing, upload, codec, profile, sessions>>

\* The receive loop ends with WebSocketDisconnect or with another exception
\* (logged by /stream, propagated by /stream/binary); finally:
\* manager.disconnect(client_id).
Leave(c, exception) ==
    /\ handlers[c].pc = "loop"
    /\ manager' = [manager EXCEPT !.active_connections = disconnect(@, handlers[c].client_id)]
    /\ handlers' = [handlers EXCEPT ![c].pc = "exited", ![c].exit = exception]
    /\ UNCHANGED <<db, dirs, next_id, deleted, last, ws, http, call, listing, upload, codec, profile, sessions>>

\* ---------------------------------------------------------------------------
\* Specifications
\* ---------------------------------------------------------------------------

\* Operations that change what a synthesis request reads.
NextVoices ==
    \/ \E valid, normalized, committed \in BOOLEAN : CreateVoice(valid, normalized, committed)
    \/ \E id \in RequestIds, s \in StatusArgs : UpdateProcessingStatus(id, s)
    \/ \E id \in RequestIds, committed \in BOOLEAN : DeleteVoice(id, committed)

NextStore ==
    \/ NextVoices
    \/ \E id \in RequestIds : GetVoice(id)
    \/ \E id \in RequestIds, u \in Updates, committed \in BOOLEAN : UpdateVoice(id, u, committed)

NextStream ==
    \/ \E e \in Endpoints : Connect(e)
    \/ PeerDisconnect
    \/ \E m \in Messages : Receive(m)
    \/ Lookup
    \/ \E resp \in RemoteResponses : Stream(resp)
    \/ Iterate

NextHttp ==
    \/ \E route \in Routes, q \in TTSRequests : HttpLookup(route, q)
    \/ \E resp \in RemoteResponses : HttpSynthesize(resp)

Next == NextVoices \/ NextStream \/ NextHttp

Spec == Init /\ [][Next]_vars

SpecStore == Init /\ [][NextStore]_vars
SpecStream == Init /\ [][NextVoices \/ NextStream]_vars
SpecHttp == Init /\ [][NextVoices \/ NextHttp]_vars

\* Operations that create and remove the files the client reads.
NextFiles ==
    \/ \E valid, normalized, committed \in BOOLEAN : CreateVoice(valid, normalized, committed)
    \/ \E id \in RequestIds, committed \in BOOLEAN : DeleteVoice(id, committed)

NextClient ==
    \/ \E model \in ClientModels, audio_path \in ClientPaths, language \in ClientLanguages,
          emotion \in ClientEmotions, resp \in ClientResponses :
           Synthesize(model, audio_path, language, emotion, resp)
    \/ Returned

SpecClient == Init /\ [][NextFiles \/ NextClient]_vars

NextGenerator ==
    \/ \E model \in ClientModels, audio_path \in ClientPaths, emotion \in ClientEmotions,
          resp \in ClientResponses :
           StreamSynthesis(model, audio_path, emotion, resp)
    \/ Returned

SpecGenerator == Init /\ [][NextFiles \/ NextGenerator]_vars

NextAudio ==
    \/ \E audio_data \in SampleArrays, sample_rate \in SampleRates :
           AudioToBase64(audio_data, sample_rate)
    \/ Base64ToAudio

SpecAudio == Init /\ [][NextAudio]_vars

\* One request at a time updates the profile.
NextProfile ==
    \/ InsertProfile
    \/ \E voice_id \in {UnknownId, StoredId}, body \in UpdateBodies :
           BeginUpdateVoice(1, voice_id, body)
    \/ \E voice_id \in {UnknownId, StoredId}, status \in StatusArgs, error \in ErrorArgs,
          chatterbox_data, orpheus_data \in BlobArgs :
           BeginUpdateProcessingStatus(1, voice_id, status, error, chatterbox_data, orpheus_data)
    \/ FlushAndCommit(1)
    \/ CloseSession(1)

SpecProfile == Init /\ [][NextProfile]_vars

\* The requests of two clients that update the stored profile at once.
ConcurrentBodies ==
    {body \in UpdateBodies :
        /\ DOMAIN body \subseteq {"name", "is_active"}
        /\ ("name" \in DOMAIN body => body.name # None)}

\* Two requests update the profile, each in its own session.
NextSessions ==
    \/ InsertProfile
    \/ \E s \in SessionIds, body \in ConcurrentBodies : BeginUpdateVoice(s, StoredId, body)
    \/ \E s \in SessionIds, status \in {"processing", "ready"}, error \in ErrorArgs,
          chatterbox_data \in {None, "embedding"} :
           BeginUpdateProcessingStatus(s, StoredId, status, error, chatterbox_data, None)
    \/ \E s \in SessionIds : FlushAndCommit(s)

SpecSessions == Init /\ [][NextSessions]_vars

NextRegistry ==
    \/ \E c \in Connections, e \in Endpoints : Offer(c, e)
    \/ \E c \in Connections, accepted \in BOOLEAN : Accept(c, accepted)
    \/ \E c \in Connections, exception \in {"WebSocketDisconnect", "Exception"} :
           Leave(c, exception)

SpecRegistry == Init /\ [][NextRegistry]_vars

NextList ==
    \E rows \in Tables, page \in PageArgs, page_size \in PageSizeArgs, active_only \in BOOLEAN :
        ListVoices(rows, page, page_size, active_only)

SpecList == Init /\ [][NextList]_vars

NextUpload ==
    \/ \E f \in Files : ValidateAudioFile(f)
    \/ \E f \in Files, normalized, committed \in BOOLEAN :
           CloneVoice(DefaultMetadata, FALSE, f, normalized, committed)
    \/ \E meta \in Metadata, refused, committed \in BOOLEAN :
           CloneVoice(meta, refused, GoodFile, TRUE, committed)

SpecUpload == Init /\ [][NextUpload]_vars

\* ---------------------------------------------------------------------------
\* Properties
\* ---------------------------------------------------------------------------

NotReady == StatusArgs \ {"ready"}

\* The last request on the connection is over: the handler is back at
\* receive_text or has left its loop on an exception.
RequestOver == ws.pc = "receive" \/ (ws.pc = "closed" /\ ws.exit = "exception")

\* C1: a synthesis request (either HTTP route, either WebSocket endpoint) that
\* finds its voice with a processing_status other than "ready" fails, with 400
\* over HTTP and with one error frame and no start frame over WebSocket, and
\* sends no POST to the remote service.
C1_NotReadyFailsBeforeRemoteCall ==
    /\ http.seen \in NotReady =>
          /\ http.pc = "idle"
          /\ http.status = "400"
          /\ http.posts = 0
    /\ ws.seen \in NotReady =>
          /\ ws.pc = "receive"
          /\ Len(ws.frames) = 1
          /\ ws.frames[1].type = "error"
          /\ ws.posts = 0

C1_Witness ==
    /\ ws.endpoint = "json"
    /\ ws.seen = "processing"
    /\ ws.frames = <<ErrorFrame("VOICE_NOT_READY")>>
    /\ ws.posts = 0

\* C2: the processing_status of a profile is "pending" when the profile is
\* created and afterwards changes only pending -> processing,
\* processing -> ready or processing -> failed.
C2_StatusTransitions ==
    [][\A id \in VoiceIds :
          /\ (db[id] = NoVoice /\ db'[id] # NoVoice) =>
                db'[id].processing_status = "pending"
          /\ (db[id] # NoVoice /\ db'[id] # NoVoice
                /\ db'[id].processing_status # db[id].processing_status) =>
                <<db[id].processing_status, db'[id].processing_status>> \in
                    {<<"pending", "processing">>, <<"processing", "ready">>,
                     <<"processing", "failed">>}]_vars

\* C3: a profile becomes "ready" only while the file its processed_audio_path
\* names exists.
C3_ReadyNeedsFile ==
    [][\A id \in VoiceIds :
          (/\ db'[id] # NoVoice
           /\ db'[id].processing_status = "ready"
           /\ (db[id] = NoVoice \/ db[id].processing_status # "ready"))
          => id \in dirs]_vars

C5_LoopEndsOnlyOnDisconnect ==
    ws.pc = "closed" => ws.exit \in {"-", "peer"}

\* The codes the error frames are documented to carry.
DocumentedCodes ==
    {"VOICE_NOT_FOUND", "VOICE_NOT_READY", "TTS_ERROR", "INVALID_JSON",
     "VALIDATION_ERROR", "AUDIO_PATH_ERROR"}

\* C6: every error frame carries a documented code; a failed synthesis is
\* reported as TTS_ERROR, malformed JSON as INVALID_JSON and a message that
\* violates the request shape as VALIDATION_ERROR.
C6_ErrorCodes ==
    \A i \in DOMAIN ws.frames :
        ws.frames[i].type = "error" =>
            /\ ws.frames[i].code \in DocumentedCodes
            /\ (i > 1 /\ ws.posts > 0 /\ ws.remote \in {"http_error", "error_field"}) =>
                  ws.frames[i].code = "TTS_ERROR"
            /\ ws.msg = "not_json" => ws.frames[i].code = "INVALID_JSON"
            /\ ws.msg = "invalid" => ws.frames[i].code = "VALIDATION_ERROR"

\* C7: a request naming an absent voice is answered by the single frame
\* error/VOICE_NOT_FOUND, a request naming a voice that is not ready by the
\* single frame error/VOICE_NOT_READY, whether or not the voice's file exists.
C7_LookupCodes ==
    /\ ws.seen = "absent" => ws.frames = <<ErrorFrame("VOICE_NOT_FOUND")>>
    /\ ws.seen \in NotReady => ws.frames = <<ErrorFrame("VOICE_NOT_READY")>>

\* The frames of a request so far are in order: nothing after an end or error
\* frame, chunk, binary and end frames only after the one start frame.
InOrder(frames) ==
    \A i \in DOMAIN frames :
        /\ frames[i].type \in {"end", "error"} => i = Len(frames)
        /\ frames[i].type = "start" => i = 1
        /\ frames[i].type \in {"chunk", "binary", "end"} => i > 1 /\ frames[1].type = "start"

\* C8: the frames of a request are in order, and a request that is over was
\* ended by exactly one end or error frame.
C8_FrameOrder ==
    /\ InOrder(ws.frames)
    /\ (ws.msg = "request" /\ ws.lookups > 0 /\ RequestOver) =>
          /\ ws.frames # <<>>
          /\ ws.frames[Len(ws.frames)].type \in {"end", "error"}

\* C9: whatever the model, a stream request that passed the lookup, whose
\* voice file exists and to which the remote service answers with audio, gets
\* one chunk (or binary) frame and an end frame after its start frame, and no
\* error frame.
C9_EveryModelStreams ==
    /\ [][(ws.pc = "stream" /\ ws.audio_path \in dirs
              /\ ws'.pc # "stream" /\ ws'.remote = "audio") =>
             (ws'.pc = "iterate" /\ ws'.frames = <<StartFrame>>)]_vars
    /\ []((ws.pc = "receive" /\ ws.remote = "audio" /\ ws.total_chunks > 0) =>
             /\ Len(ws.frames) = 3
             /\ ws.frames[2].type \in {"chunk", "binary"}
             /\ ws.frames[3] = EndFrame(1))

\* C10: a message that is not JSON or does not have the request shape is
\* answered by exactly one error frame, without a voice lookup, a remote call
\* or a start frame, and the handler waits for the next message.
C10_BadMessage ==
    ws.msg \in {"not_json", "not_object", "invalid"} =>
        /\ ws.pc = "receive"
        /\ Len(ws.frames) = 1
        /\ ws.frames[1].type = "error"
        /\ ws.lookups = 0
        /\ ws.posts = 0

\* C11: POST /tts/synthesize answers 404 for an absent voice and 400 for a
\* voice that is not ready, both without a POST to the remote service, and 502
\* when the voice is ready and the synthesis call raises TTSClientError
\* (transport error, error field in the answer, or a rejection by the client
\* before any POST).
C11_StatusPrecedence ==
    http.route = "synthesize" =>
        /\ http.seen = "absent" => http.status = "404" /\ http.posts = 0
        /\ http.seen \in NotReady => http.status = "400" /\ http.posts = 0
        /\ http.status \in {"404", "400"} => http.posts = 0 /\ http.remote = "-"
        /\ http.outcome = "TTSClientError" => http.status = "502" /\ http.seen = "ready"
        /\ (http.posts = 1 /\ http.remote \in {"http_error", "error_field"}) =>
              http.status = "502"

\* A ready voice whose synthesis the client rejected before any POST, and one
\* whose POST the remote service failed.
C11_Witness ==
    /\ http.route = "synthesize"
    /\ http.seen = "ready"
    /\ http.status = "502"
    /\ http.posts = 1
    /\ http.remote = "error_field"

\* C12: synthesize with model "xtts" and a language outside
\* XTTS_SUPPORTED_LANGUAGES raises TTSClientError and sends no POST.
C12_XttsLanguage ==
    (call.model = "xtts" /\ call.language \notin XTTS_SUPPORTED_LANGUAGES) =>
        /\ call.result.outcome = "TTSClientError"
        /\ call.result.posts = 0

\* C13: synthesize with model "svara" raises TTSClientError without a POST
\* when the language is outside SVARA_SUPPORTED_LANGUAGES or a non-empty
\* emotion is outside SVARA_EMOTIONS; otherwise it sends exactly one POST,
\* with or without a reference path, and the payload carries
\* audio_prompt_base64 exactly when a path was given and the file exists.
C13_SvaraValidation ==
    call.model = "svara" =>
        IF \/ call.language \notin SVARA_SUPPORTED_LANGUAGES
           \/ (call.emotion \notin {NoEmotion, ""} /\ call.emotion \notin SVARA_EMOTIONS)
        THEN /\ call.result.outcome = "TTSClientError"
             /\ call.result.posts = 0
        ELSE /\ call.result.posts = 1
             /\ call.result.prompt <=> (call.audio_path # NoPath /\ call.exists)

\* A svara call with a valid language and emotion and an existing reference
\* file: one POST that carries the audio prompt.
C13_Witness ==
    /\ call.model = "svara"
    /\ call.language = "bn"
    /\ call.emotion = "happy"
    /\ call.exists
    /\ call.result.posts = 1
    /\ call.result.prompt

\* C14: synthesize with model "xtts" or "chatterbox" raises TTSClientError
\* without a POST when no reference path is given or the path names no
\* existing file; the payload of an "orpheus" call never carries
\* audio_prompt_base64; a model name outside the four raises TTSClientError
\* without a POST.
C14_ReferenceAudio ==
    /\ (call.model \in {"xtts", "chatterbox"}
           /\ (call.audio_path = NoPath \/ ~call.exists)) =>
          /\ call.result.outcome = "TTSClientError"
          /\ call.result.posts = 0
    /\ call.model = "orpheus" => ~call.result.prompt
    /\ (call # NoCall /\ call.model \notin Models) =>
          /\ call.result.outcome = "TTSClientError"
          /\ call.result.posts = 0

\* A chatterbox call given the path of a file that does not exist.
C14_Witness ==
    /\ call.model = "chatterbox"
    /\ call.audio_path \in VoiceIds
    /\ ~call.exists
    /\ call.result = Raised("TTSClientError")

\* C15: a backend call raises TTSClientError when the HTTP exchange fails and
\* when the answer's body has an "error" field; in every other case it returns
\* the body of the answer unchanged.
C15_ClientOutcomes ==
    call.result.posts = 1 =>
        IF call.resp \in {"http_error", "error_field"}
        THEN call.result.outcome = "TTSClientError"
        ELSE /\ call.result.outcome = "ok"
             /\ call.result.body = call.resp

\* The remote answers after which a synthesis call has failed.
FailedAnswers == {"http_error", "error_field", "not_json"}

\* C16: a call of TTSClient.synthesize, and a request that reaches it through
\* an HTTP or WebSocket handler, sends at most one POST; when the POST failed
\* the request is over without a second POST and with the failure answered:
\* an exception to the caller of synthesize, a 502 or 500 over HTTP, an error
\* frame or the end of the handler over WebSocket, never a 200 or an end frame.
\* The calls of synthesize are taken with every argument and against every
\* set of files the voice store can leave (the states with no request made).
C16_NoRetry ==
    /\ (http = HttpIdle /\ ws = WsClosed("-")) =>
          \A model \in ClientModels, audio_path \in ClientPaths, language \in ClientLanguages,
             emotion \in ClientEmotions, resp \in ClientResponses :
              LET r == synthesize(model, audio_path, language, emotion, dirs, resp)
              IN  /\ r.posts <= 1
                  /\ (r.posts = 1 /\ resp \in FailedAnswers) => r.outcome # "ok"
    /\ http.posts <= 1
    /\ ws.posts <= 1
    /\ (http.posts = 1 /\ http.remote \in FailedAnswers) =>
          /\ http.pc = "idle"
          /\ http.status \in {"502", "500"}
    /\ (ws.posts = 1 /\ ws.remote \in FailedAnswers) =>
          /\ RequestOver
          /\ \A i \in DOMAIN ws.frames : ws.frames[i].type \notin {"chunk", "binary", "end"}
          /\ ws.pc = "receive" => ws.frames[Len(ws.frames)].type = "error"

\* A WebSocket request whose one POST failed, answered by an error frame.
C16_Witness ==
    /\ ws.posts = 1
    /\ ws.remote = "http_error"
    /\ ws.pc = "receive"
    /\ Len(ws.frames) = 2
    /\ ws.frames[2].type = "error"

\* C17: the page size GET /voices works with is 1 for every requested value
\* below 1, 100 for every requested value above 100 and the requested value
\* otherwise.
C17_PageSizeClamp ==
    listing.asked =>
        listing.page_size =
            IF listing.page_size_arg < 1 THEN 1
            ELSE IF listing.page_size_arg > 100 THEN 100
            ELSE listing.page_size_arg

\* The rows of the listed table that match the filter of the request.
Listed == {i \in DOMAIN listing.rows : ~listing.active_only \/ listing.rows[i]}

\* How many matching rows are newer than row i.
Newer(i) == Cardinality({j \in Listed : j > i})

\* C18: with page p and page size n as the listing works with them (p >= 1,
\* n >= 1), the answer holds at most n items, the rows at the positions
\* (p-1)*n .. p*n-1 of the newest-first order of the rows that match the
\* filter; total is the number of matching rows, and total_pages is
\* ceil(total/n) when total > 0 and 1 when total = 0.
C18_Pagination ==
    listing.asked =>
        LET p == listing.page
            n == listing.page_size
            from == (p - 1) * n
            items == listing.items
        IN  /\ p >= 1 /\ n >= 1
            /\ Len(items) <= n
            /\ \A k \in DOMAIN items : items[k] \in Listed /\ Newer(items[k]) = from + k - 1
            /\ \A i \in Listed :
                  (Newer(i) >= from /\ Newer(i) <= p * n - 1) => \E k \in DOMAIN items : items[k] = i
            /\ listing.total = Cardinality(Listed)
            /\ IF listing.total = 0 THEN listing.total_pages = 1
               ELSE /\ listing.total_pages * n >= listing.total
                    /\ (listing.total_pages - 1) * n < listing.total

\* The second page of two of a table with three active rows: the oldest row
\* alone on the page.
C18_Witness ==
    /\ listing.asked
    /\ listing.rows = <<TRUE, TRUE, TRUE>>
    /\ listing.page = 2
    /\ listing.page_size = 2
    /\ listing.items = <<1>>
    /\ listing.total = 3
    /\ listing.total_pages = 2

\* C19: when validate_audio_file rejects the upload, as it does every file
\* whose extension is outside allowed_audio_formats, create_voice raises
\* VoiceServiceError with the validator's message, normalize_audio is not
\* called, no directory or file is made and no row is added.
C19_RejectedUpload ==
    /\ []((upload.via = "create" /\ Ext(upload.file.filename) \notin allowed_audio_formats) =>
             upload.outcome # "ok")
    /\ []((upload.via = "create" /\ upload.outcome # "ok") =>
             /\ upload.raised = "VoiceServiceError"
             /\ upload.message = validate_audio_file(upload.file).message
             /\ upload.message.prefix = "-"
             /\ ~upload.normalize_called)
    /\ [][(upload'.via = "create" /\ upload'.outcome # "ok") =>
             UNCHANGED <<db, dirs, next_id>>]_vars

\* notes.txt was uploaded and rejected for its extension; nothing was made.
C19_Witness ==
    /\ upload.via = "create"
    /\ upload.file.filename = "notes.txt"
    /\ upload.raised = "VoiceServiceError"
    /\ upload.message.check = "format"
    /\ next_id = 0
    /\ dirs = {}
    /\ last = Answer("create", "400")

\* The file passed the checks made before its duration is measured.
ReachedDuration ==
    /\ upload.given
    /\ upload.file.size <= max_voice_sample_size_mb * BytesPerMb
    /\ Ext(upload.file.filename) \in allowed_audio_formats
    /\ upload.file.readable

\* The part of C20 that does not depend on how the duration is printed.
C20_Checks ==
    /\ (upload.given /\ upload.file.readable) =>
          (upload.outcome = "ok" <=>
              /\ upload.file.size <= max_voice_sample_size_mb * BytesPerMb
              /\ Ext(upload.file.filename) \in allowed_audio_formats
              /\ upload.file.duration >= Seconds(3)
              /\ upload.file.duration <= Seconds(60))
    /\ (upload.given /\ upload.file.size > max_voice_sample_size_mb * BytesPerMb) =>
          upload.message.check = "size"
    /\ (upload.given /\ upload.file.size <= max_voice_sample_size_mb * BytesPerMb
           /\ Ext(upload.file.filename) \notin allowed_audio_formats) =>
          upload.message.check = "format"
    /\ (ReachedDuration /\ upload.file.duration < Seconds(3)) =>
          upload.raised = "AudioProcessingError" /\ upload.message.check = "short"
    /\ (ReachedDuration /\ upload.file.duration > Seconds(60)) =>
          upload.raised = "AudioProcessingError" /\ upload.message.check = "long"

C21_InvalidInputAnswered400 ==
    /\ (upload.via \in {"create", "clone"} /\ upload.raised # "-") =>
          last = Answer("create", "400")
    /\ (upload.via = "create" /\ upload.raised = "-" /\ db[next_id] # NoVoice) =>
          /\ last = Answer("create", "201")
          /\ db[next_id].processing_status = "pending"

\* C22: what base64_to_audio reads from the text audio_to_base64 made of a
\* non-empty sample array has the sample rate that was given and is not empty.
C22_RoundTrip ==
    codec.decoded =>
        /\ codec.recovered_sr = codec.sample_rate
        /\ Len(codec.recovered_audio) > 0
        /\ Len(codec.recovered_audio) = Len(codec.audio_data)

\* Two samples at 96000 Hz went through the text and came back.
C22_Witness ==
    /\ codec.decoded
    /\ codec.audio_data = <<-1, 32767>>
    /\ codec.sample_rate = 96000
    /\ codec.recovered_sr = 96000
    /\ Len(codec.encoded) = 16
    /\ Len(codec.recovered_audio) = 2

\* The last direct call was one of stream_synthesis.
Streamed == "items" \in DOMAIN call.result

\* C24: a stream_synthesis that ends without raising has made one POST and
\* yielded two items: a non-final one with chunk_index 0 and audio_base64 of
\* the response, then a final one with total_chunks 1; one that raised made at
\* most one POST and yielded no item.
C24_TwoItems ==
    Streamed =>
        /\ call.result.posts <= 1
        /\ (call.result.outcome = "ok") =>
              /\ call.result.posts = 1
              /\ Len(call.result.items) = 2
              /\ call.result.items[1] =
                    [is_final |-> FALSE, chunk_index |-> 0, audio_base64 |-> call.resp]
              /\ call.result.items[2] = [is_final |-> TRUE, total_chunks |-> 1]
        /\ (call.result.outcome # "ok") => call.result.items = <<>>

\* chatterbox with a reference file that exists: the two items were yielded.
C24_Witness ==
    /\ Streamed
    /\ call.model = "chatterbox"
    /\ call.exists
    /\ call.resp = "audio"
    /\ call.result.outcome = "ok"
    /\ call.result.posts = 1
    /\ Len(call.result.items) = 2
\* Session 1 takes the step from the loaded row to the commit.
Commits == sessions[1].pc = "loaded" /\ sessions'[1].pc = "done" /\ sessions'[1].result = "ok"

\* What C23 says of identity and of a missing id: no update changes id or
\* processed_audio_path, update_voice does not change processing_status, and
\* update_voice on a missing id raises VoiceNotFoundError and changes nothing.
C23_Identity ==
    /\ [][profile # NoVoice =>
             /\ profile'.id = profile.id
             /\ profile'.processed_audio_path = profile.processed_audio_path]_vars
    /\ [][(Commits /\ sessions[1].kind = "update") =>
             profile'.processing_status = profile.processing_status]_vars
    /\ [][(sessions[1].pc = "idle" /\ sessions'[1].kind = "update"
              /\ sessions'[1].voice_id # StoredId) =>
             /\ sessions'[1].pc = "done"
             /\ sessions'[1].result = "VoiceNotFoundError"
             /\ profile' = profile]_vars

C29_ErrorOverwrittenBlobsKept ==
    /\ [][(Commits /\ sessions[1].kind = "status") =>
             /\ profile'.processing_status = sessions[1].status
             /\ profile'.processing_error = sessions[1].error
             /\ profile'.chatterbox_data =
                   IF sessions[1].chatterbox_data \in {None, "{}"}
                   THEN profile.chatterbox_data ELSE sessions[1].chatterbox_data
             /\ profile'.orpheus_data =
                   IF sessions[1].orpheus_data \in {None, "{}"}
                   THEN profile.orpheus_data ELSE sessions[1].orpheus_data
             /\ (profile.chatterbox_data # None => profile'.chatterbox_data # None)
             /\ (profile.orpheus_data # None => profile'.orpheus_data # None)]_vars
    /\ [][(sessions[1].pc = "loaded" /\ sessions[1].kind = "status") => Commits]_vars
    /\ [][(sessions[1].pc = "idle" /\ sessions'[1].kind = "status"
              /\ sessions'[1].voice_id # StoredId) =>
             /\ sessions'[1].pc = "done"
             /\ sessions'[1].result = "VoiceNotFoundError"
             /\ profile' = profile]_vars

\* A failed profile with an embedding was set to ready with no error and an
\* empty chatterbox_data: the error is gone, the embedding is still there.
C29_Witness ==
    /\ sessions[1].pc = "done"
    /\ sessions[1].kind = "status"
    /\ sessions[1].result = "ok"
    /\ sessions[1].loaded.processing_error = "normalization failed"
    /\ sessions[1].loaded.chatterbox_data = "embedding"
    /\ sessions[1].error = None
    /\ sessions[1].chatterbox_data = "{}"
    /\ profile.processing_status = "ready"
    /\ profile.processing_error = None
    /\ profile.chatterbox_data = "embedding"

\* The columns a request assigns, and the session that committed last.
Written(s) ==
    IF sessions[s].kind = "update" THEN DOMAIN sessions[s].update
    ELSE {"processing_status", "processing_error"}
            \cup (IF NotEmpty(sessions[s].chatterbox_data) THEN {"chatterbox_data"} ELSE {})
            \cup (IF NotEmpty(sessions[s].orpheus_data) THEN {"orpheus_data"} ELSE {})
LastCommitted == CHOOSE s \in SessionIds : sessions[s].order = Cardinality(SessionIds)

\* C25: two requests that have loaded the profile both complete without
\* error; once both have committed, a column both assigned holds the value of
\* the one that committed last, and a column one of them assigned holds that
\* request's value.
C25_LastWriteWins ==
    /\ \A s \in SessionIds :
          (sessions[s].pc = "done" /\ sessions[s].loaded # NoVoice) => sessions[s].result = "ok"
    /\ (\A s \in SessionIds : sessions[s].order > 0) =>
          \A s \in SessionIds : \A f \in Written(s) :
              profile[f] = IF f \in Written(LastCommitted)
                           THEN Assigned(sessions[LastCommitted])[f]
                           ELSE Assigned(sessions[s])[f]

\* C26: a synthesis request that has passed the lookup of a ready voice whose
\* directory is then removed by a DELETE fails at the client's test of the
\* file: POST /tts/synthesize is answered 502, the stream sends an error frame
\* after its start frame, and no POST is made with the removed reference audio.
C26_DeletedUnderRequest ==
    /\ [][(http.pc = "synth" /\ http.req.model \in {"chatterbox", "xtts"}
              /\ http.audio_path \notin dirs /\ http'.pc = "idle") =>
             /\ http.seen = "ready"
             /\ http'.status = "502"
             /\ http'.outcome = "TTSClientError"
             /\ http'.posts = 0]_vars
    /\ [][(ws.pc = "stream" /\ ws.req.model = "chatterbox"
              /\ ws.audio_path \notin dirs /\ ws'.pc # "stream") =>
             /\ ws.seen = "ready"
             /\ ws.frames = <<StartFrame>>
             /\ ws'.pc = "receive"
             /\ ws'.frames = <<StartFrame, ErrorFrame(ClientErrorCode(ws.endpoint))>>
             /\ ws'.posts = ws.posts]_vars

\* A chatterbox request found its voice ready, and the voice was deleted
\* before the client was called.
C26_Witness ==
    /\ http.pc = "synth"
    /\ http.req.model = "chatterbox"
    /\ http.seen = "ready"
    /\ http.audio_path \in deleted
    /\ http.audio_path \notin dirs
    /\ db[http.audio_path] = NoVoice
    /\ last = Answer("delete", "204")

\* The identifiers registered in the manager.
Registered == {id \in ClientIds : manager.active_connections[id] # NoConnection}

\* C27: the registry holds a connection's identifier exactly from the moment
\* the connection is accepted until its handler exits, under that connection
\* and no other, whatever ends the handler and on both endpoints; two
\* connections never have the same identifier.
C27_RegistryHoldsRunningHandlers ==
    /\ \A c \in Connections :
          handlers[c].pc = "loop" <=>
              /\ handlers[c].client_id \in Registered
              /\ manager.active_connections[handlers[c].client_id] = c
    /\ \A id \in Registered :
          /\ handlers[manager.active_connections[id]].pc = "loop"
          /\ handlers[manager.active_connections[id]].client_id = id
    /\ \A c, d \in Connections :
          (c # d /\ handlers[c].client_id # NoClientId) =>
              handlers[c].client_id # handlers[d].client_id

\* Two connections were registered, one on each endpoint; the one on
\* /stream/binary left its loop with an exception and only the other is left.
C27_Witness ==
    /\ handlers[1].pc = "loop"
    /\ handlers[1].endpoint = "json"
    /\ handlers[2].pc = "exited"
    /\ handlers[2].endpoint = "binary"
    /\ handlers[2].exit = "Exception"
    /\ handlers[2].client_id = 1
    /\ Registered = {handlers[1].client_id}

\* C28: whenever no create_voice or delete_voice is under way, a voice has a
\* row exactly when it has a storage directory.
C28_RecordIffDirectory ==
    \A id \in VoiceIds : db[id] # NoVoice <=> id \in dirs

\* The positions of the end and error frames, and of the chunk and binary
\* frames, among the frames sent for the last message.
Terminating == {i \in DOMAIN ws.frames : ws.frames[i].type \in {"end", "error"}}
Carrying == {i \in DOMAIN ws.frames : ws.frames[i].type \in {"chunk", "binary"}}

\* C30: while the peer stays connected, a message the handler has finished
\* with was answered by exactly one end or error frame, sent last, and an end
\* frame counts the chunk (or binary) frames sent before it; while a message
\* is being handled no such frame has been sent yet.
C30_OneTerminatingFrame ==
    /\ (ws.msg # "-" /\ RequestOver) =>
          /\ Cardinality(Terminating) = 1
          /\ Terminating = {Len(ws.frames)}
          /\ (ws.frames[Len(ws.frames)].type = "end" =>
                 ws.frames[Len(ws.frames)].n = Cardinality(Carrying))
    /\ (ws.pc \in {"lookup", "stream", "iterate"}) => Terminating = {}

====
